---- MODULE Spec2Model ----
(***************************************************************************)
(* Model of userinput_dbcheck.py: the RDS configuration comparator         *)
(* (compare_rds_fields), the S3 persistence step and the CLI (main).       *)
(*                                                                         *)
(* Python values are tagged records with the same fields for every kind,   *)
(* so that any two values can be put in one set:                           *)
(*   kind  "none" | "bool" | "int" | "str" | "list" | "dict"               *)
(*   b     the truth value of a bool                                       *)
(*   n     the number of an int                                            *)
(*   s     the text of a str                                               *)
(*   items the elements of a list, in order                                *)
(*   pairs the entries of a dict, [key, val], in insertion order           *)
(* A configuration record (a DBInstances[0] of boto3) is a dict value.     *)
(* The value universe holds no floats, no list nested directly in a list   *)
(* and no dict key that is not a str.                                      *)
(* The logger's lines change no state of the program and are left out;     *)
(* stdout holds the documents main prints with print(json.dumps(...)).     *)
(***************************************************************************)
EXTENDS Integers, Sequences, FiniteSets, TLC

VARIABLES
    \* direct calls of compare_rds_fields
    db1_details,        \* first argument: a dict value or None
    db2_details,        \* second argument
    fields_to_compare,  \* third argument: a sequence of field names
    comparison_results, \* what the call returned or raised; NotCalled before
    \* a run of main
    pc,                 \* position of main
    argv,               \* [db1, db2, fields]: the parsed command line
    rds,                \* what describe_db_instances answers per identifier
    s3_put,             \* what put_object does: "ok" | "raise"
    s3_object_key,      \* main's local of the same name (NoKey = None)
    stdout,             \* the documents printed, in order
    exit_code,          \* the process's exit status; NoExit while running
    uncaught            \* the exception that ended main, "" if none

vars == <<db1_details, db2_details, fields_to_compare, comparison_results,
          pc, argv, rds, s3_put, s3_object_key, stdout, exit_code, uncaught>>

compareVars == <<db1_details, db2_details, fields_to_compare, comparison_results>>
mainVars == <<pc, argv, rds, s3_put, s3_object_key, stdout, exit_code, uncaught>>

----------------------------------------------------------------------------
(* Python values *)

PyNone == [kind |-> "none", b |-> FALSE, n |-> 0, s |-> "", items |-> <<>>, pairs |-> <<>>]
PyBool(x) == [kind |-> "bool", b |-> x, n |-> 0, s |-> "", items |-> <<>>, pairs |-> <<>>]
PyInt(x) == [kind |-> "int", b |-> FALSE, n |-> x, s |-> "", items |-> <<>>, pairs |-> <<>>]
PyStr(x) == [kind |-> "str", b |-> FALSE, n |-> 0, s |-> x, items |-> <<>>, pairs |-> <<>>]
PyList(xs) == [kind |-> "list", b |-> FALSE, n |-> 0, s |-> "", items |-> xs, pairs |-> <<>>]
PyDict(ps) == [kind |-> "dict", b |-> FALSE, n |-> 0, s |-> "", items |-> <<>>, pairs |-> ps]

KV(k, v) == [key |-> k, val |-> v]

\* isinstance(v, list), isinstance(v, dict)
IsList(v) == v.kind = "list"
IsDict(v) == v.kind = "dict"

\* bool is a subclass of int: True is 1 and False is 0 in == and <
IsNum(v) == v.kind \in {"bool", "int"}
NumVal(v) == IF v.kind = "bool" THEN (IF v.b THEN 1 ELSE 0) ELSE v.n

\* truth value of a value, as `if v` and `not v` take it
Truthy(v) ==
    CASE v.kind = "none" -> FALSE
      [] v.kind = "bool" -> v.b
      [] v.kind = "int"  -> v.n # 0
      [] v.kind = "str"  -> v.s # ""
      [] v.kind = "list" -> v.items # <<>>
      [] v.kind = "dict" -> v.pairs # <<>>

Keys(d) == {d.pairs[i].key : i \in 1..Len(d.pairs)}

\* d.get(key): the value stored under key, None when there is none
get(d, key) ==
    IF key \in Keys(d)
    THEN d.pairs[CHOOSE i \in 1..Len(d.pairs) : d.pairs[i].key = key].val
    ELSE PyNone

\* a == b of Python
RECURSIVE PyEq(_, _)
PyEq(a, b) ==
    IF IsNum(a) /\ IsNum(b) THEN NumVal(a) = NumVal(b)
    ELSE IF a.kind # b.kind THEN FALSE
    ELSE CASE a.kind = "none" -> TRUE
           [] a.kind = "str"  -> a.s = b.s
           [] a.kind = "list" ->
                /\ Len(a.items) = Len(b.items)
                /\ \A i \in 1..Len(a.items) : PyEq(a.items[i], b.items[i])
           [] a.kind = "dict" ->
                /\ Keys(a) = Keys(b)
                /\ \A k \in Keys(a) : PyEq(get(a, k), get(b, k))

\* the strings of the value universe in code-point order, which is the order
\* of < on str and of json.dumps(sort_keys=True) on keys
StrOrder == <<"", "1", "Address", "Key", "Port", "Status", "Value", "VpcSecurityGroupId",
              "a", "active", "adding", "b", "sg-1", "sg-2">>
StrRank(x) == CHOOSE i \in 1..Len(StrOrder) : StrOrder[i] = x
StrLt(x, y) == StrRank(x) < StrRank(y)

\* a < b is defined between two numbers and between two strs; between any
\* other two values of the universe it raises TypeError
CanOrder(a, b) == (IsNum(a) /\ IsNum(b)) \/ (a.kind = "str" /\ b.kind = "str")
Lt(a, b) == IF IsNum(a) THEN NumVal(a) < NumVal(b) ELSE StrLt(a.s, b.s)

\* sorted(xs) raises TypeError when it has to compare two elements that < does
\* not order; a list of fewer than two elements is never compared
SortRaises(xs) ==
    /\ Len(xs) >= 2
    /\ \E i, j \in 1..Len(xs) : i # j /\ ~CanOrder(xs[i], xs[j])

\* stable ascending insertion of x into the sorted sequence ys
RECURSIVE Insert(_, _)
Insert(x, ys) ==
    IF ys = <<>> THEN <<x>>
    ELSE IF Lt(x, ys[Len(ys)]) THEN Append(Insert(x, SubSeq(ys, 1, Len(ys) - 1)), ys[Len(ys)])
    ELSE Append(ys, x)

RECURSIVE SortedSeq(_)
SortedSeq(xs) ==
    IF Len(xs) <= 1 THEN xs
    ELSE Insert(xs[Len(xs)], SortedSeq(SubSeq(xs, 1, Len(xs) - 1)))

\* sorted(xs): [raised, val]
sorted(xs) ==
    IF SortRaises(xs) THEN [raised |-> TRUE, val |-> <<>>]
    ELSE [raised |-> FALSE, val |-> SortedSeq(xs)]

\* xs == ys on two Python lists given as sequences
SeqEq(xs, ys) == PyEq(PyList(xs), PyList(ys))

----------------------------------------------------------------------------
(* Text conversions *)

RECURSIVE JoinStr(_, _)
JoinStr(parts, sep) ==
    IF parts = <<>> THEN ""
    ELSE IF Len(parts) = 1 THEN parts[1]
    ELSE parts[1] \o sep \o JoinStr(Tail(parts), sep)

\* the keys of d in ascending order
SortedKeys(d) == SortedSeq([i \in 1..Len(d.pairs) |-> PyStr(d.pairs[i].key)])

\* json.dumps(v, sort_keys=True)
RECURSIVE dumps_sorted(_)
dumps_sorted(v) ==
    CASE v.kind = "none" -> "null"
      [] v.kind = "bool" -> IF v.b THEN "true" ELSE "false"
      [] v.kind = "int"  -> ToString(v.n)
      [] v.kind = "str"  -> "\"" \o v.s \o "\""
      [] v.kind = "list" ->
           "[" \o JoinStr([i \in 1..Len(v.items) |-> dumps_sorted(v.items[i])], ", ") \o "]"
      [] v.kind = "dict" ->
           LET ks == SortedKeys(v)
           IN "{" \o JoinStr([i \in 1..Len(ks) |->
                        "\"" \o ks[i].s \o "\": " \o dumps_sorted(get(v, ks[i].s))], ", ") \o "}"

\* repr(v) and str(v); they differ on a str only
RECURSIVE repr(_)
repr(v) ==
    CASE v.kind = "none" -> "None"
      [] v.kind = "bool" -> IF v.b THEN "True" ELSE "False"
      [] v.kind = "int"  -> ToString(v.n)
      [] v.kind = "str"  -> "'" \o v.s \o "'"
      [] v.kind = "list" ->
           "[" \o JoinStr([i \in 1..Len(v.items) |-> repr(v.items[i])], ", ") \o "]"
      [] v.kind = "dict" ->
           "{" \o JoinStr([i \in 1..Len(v.pairs) |->
                    "'" \o v.pairs[i].key \o "': " \o repr(v.pairs[i].val)], ", ") \o "}"

str(v) == IF v.kind = "str" THEN v.s ELSE repr(v)

----------------------------------------------------------------------------
(* compare_rds_fields *)

\* what the comparison of one field yields: the exception it raised ("" if
\* none), the two values stored in the report, the diff flag stored with them
\* and whether the branch set found_differences
FieldResult(v1, v2, differs, found) ==
    [raised |-> "", db1 |-> v1, db2 |-> v2, diff |-> differs, found |-> found]
FieldRaised(exc) ==
    [raised |-> exc, db1 |-> PyNone, db2 |-> PyNone, diff |-> FALSE, found |-> FALSE]

\* [sg.get('VpcSecurityGroupId') for sg in xs if sg.get('VpcSecurityGroupId')]
\* sg.get exists on a dict only
SgIdsRaises(xs) == \E i \in 1..Len(xs) : ~IsDict(xs[i])
RECURSIVE SgIdsUnsorted(_)
SgIdsUnsorted(xs) ==
    IF xs = <<>> THEN <<>>
    ELSE LET id == get(Head(xs), "VpcSecurityGroupId")
         IN IF Truthy(id) THEN <<id>> \o SgIdsUnsorted(Tail(xs))
            ELSE SgIdsUnsorted(Tail(xs))

\* SgIds without the sort: the identifiers in the order of the input
SgIds_unsorted(xs) ==
    IF SgIdsRaises(xs) THEN [raised |-> "AttributeError", val |-> <<>>]
    ELSE [raised |-> "", val |-> SgIdsUnsorted(xs)]

\* sorted([...]) of lines 111 and 112: [raised, val]
SgIds(xs) ==
    IF SgIdsRaises(xs) THEN [raised |-> "AttributeError", val |-> <<>>]
    ELSE LET r == sorted(SgIdsUnsorted(xs))
         IN IF r.raised THEN [raised |-> "TypeError", val |-> <<>>]
            ELSE [raised |-> "", val |-> r.val]

\* lines 110-125: both values are lists and the field is VpcSecurityGroups
VpcBranch(value1, value2) ==
    LET ids1 == SgIds(value1.items)
        ids2 == SgIds(value2.items)
    IN IF ids1.raised # "" THEN FieldRaised(ids1.raised)
       ELSE IF ids2.raised # "" THEN FieldRaised(ids2.raised)
       ELSE LET ne == ~SeqEq(ids1.val, ids2.val)
            IN FieldResult(PyList(ids1.val), PyList(ids2.val), ne, ne)

\* lines 126-139: both values are lists, any other field
ListBranch(value1, value2) ==
    LET s1 == sorted(value1.items)
        s2 == sorted(value2.items)
    IN IF s1.raised \/ s2.raised THEN FieldRaised("TypeError")
       ELSE LET ne == ~SeqEq(s1.val, s2.val)
            IN FieldResult(value1, value2, ne, ne)

\* lines 140-155: both values are dicts
DictBranch(value1, value2) ==
    LET ne == dumps_sorted(value1) # dumps_sorted(value2)
    IN FieldResult(value1, value2, ne, ne)

\* ScalarBranch that stores diff = True without setting found_differences
ScalarBranch_noflag(value1, value2) ==
    LET ne == ~PyEq(value1, value2)
    IN FieldResult(PyStr(str(value1)), PyStr(str(value2)), ne, FALSE)

\* ScalarBranch that tests `value1 and value2 and value1 != value2`
ScalarBranch_truthy(value1, value2) ==
    LET ne == Truthy(value1) /\ Truthy(value2) /\ ~PyEq(value1, value2)
    IN FieldResult(PyStr(str(value1)), PyStr(str(value2)), ne, ne)

\* lines 156-168: everything else
ScalarBranch(value1, value2) ==
    LET ne == ~PyEq(value1, value2)
    IN FieldResult(PyStr(str(value1)), PyStr(str(value2)), ne, ne)

\* the body of the loop of line 105 for one field
CompareField(db1, db2, field) ==
    LET value1 == get(db1, field)
        value2 == get(db2, field)
    IN IF IsList(value1) /\ IsList(value2)
       THEN IF field = "VpcSecurityGroups" THEN VpcBranch(value1, value2)
            ELSE ListBranch(value1, value2)
       ELSE IF IsDict(value1) /\ IsDict(value2) THEN DictBranch(value1, value2)
       ELSE ScalarBranch(value1, value2)

\* comparison_results["differences"][field] = {...}: a dict keeps the position
\* of a key that is assigned again
SetEntry(diffs, field, r) ==
    LET e == [key |-> field, db1 |-> r.db1, db2 |-> r.db2, diff |-> r.diff]
    IN IF \E i \in 1..Len(diffs) : diffs[i].key = field
       THEN [i \in 1..Len(diffs) |-> IF diffs[i].key = field THEN e ELSE diffs[i]]
       ELSE Append(diffs, e)

Report(st, msg, diffs) ==
    [raised |-> "", status |-> st, message |-> msg, differences |-> diffs]
Raised(exc) ==
    [raised |-> exc, status |-> "", message |-> "", differences |-> <<>>]
NotCalled == [raised |-> "", status |-> "", message |-> "", differences |-> <<>>]

\* lines 96-100
ErrorReport ==
    Report("ERROR", "One or both DB instance details are missing for comparison.", <<>>)

\* lines 170-175
FinalReport(diffs, found_differences) ==
    IF found_differences
    THEN Report("DIFFERENCES_FOUND", "Differences found for one or more specified fields.", diffs)
    ELSE Report("SUCCESS", "No differences found for specified fields.", diffs)

\* lines 103-168: the loop from field i on
RECURSIVE CompareLoop(_, _, _, _, _, _)
CompareLoop(db1, db2, fields, i, diffs, found_differences) ==
    IF i > Len(fields) THEN FinalReport(diffs, found_differences)
    ELSE LET r == CompareField(db1, db2, fields[i])
         IN IF r.raised # "" THEN Raised(r.raised)
            ELSE CompareLoop(db1, db2, fields, i + 1,
                             SetEntry(diffs, fields[i], r), found_differences \/ r.found)

compare_rds_fields(db1, db2, fields) ==
    IF ~Truthy(db1) \/ ~Truthy(db2) THEN ErrorReport
    ELSE CompareLoop(db1, db2, fields, 1, <<>>, FALSE)

----------------------------------------------------------------------------
(* The inputs of the direct calls *)

\* longest list held by a field
MaxLen == 2

SeqsUpTo(S, n) == UNION {[1..k -> S] : k \in 0..n}

Scalars == {PyNone, PyBool(TRUE), PyBool(FALSE), PyInt(0), PyInt(1), PyStr("1"), PyStr("a")}

\* nested mappings, such as Endpoint; the third is the second built in
\* another order
Mappings ==
    { PyDict(<<>>),
      PyDict(<<KV("Port", PyInt(1))>>),
      PyDict(<<KV("Address", PyStr("a")), KV("Port", PyInt(1))>>),
      PyDict(<<KV("Port", PyInt(1)), KV("Address", PyStr("a"))>>),
      PyDict(<<KV("Port", PyBool(TRUE))>>) }

\* elements of plain lists
PlainElems == {PyStr("a"), PyStr("b"), PyInt(1)}

\* security-group attachments: two with the identifier sg-1 and different
\* other attributes, one with sg-2, one with no identifier
SgElems ==
    { PyDict(<<KV("VpcSecurityGroupId", PyStr("sg-1")), KV("Status", PyStr("active"))>>),
      PyDict(<<KV("Status", PyStr("adding")), KV("VpcSecurityGroupId", PyStr("sg-1"))>>),
      PyDict(<<KV("VpcSecurityGroupId", PyStr("sg-2"))>>),
      PyDict(<<KV("Status", PyStr("active"))>>) }

Lists == {PyList(xs) : xs \in SeqsUpTo(PlainElems, MaxLen) \cup SeqsUpTo(SgElems, MaxLen)}

Values == Scalars \cup Mappings \cup Lists

\* the field under comparison, and a second field every record may carry
FocusFields == {"Tags", "VpcSecurityGroups"}

\* the records over field f: f and MultiAZ are each present or not
RecordsOver(f) ==
    {PyDict(<<>>), PyDict(<<KV("MultiAZ", PyBool(TRUE))>>)}
    \cup {PyDict(<<KV(f, v)>>) : v \in Values}
    \cup {PyDict(<<KV("MultiAZ", PyBool(TRUE)), KV(f, v)>>) : v \in Values}

\* the field lists over f: Engine is in no record, "" is the empty name
FieldLists(f) ==
    { <<f>>, <<f, "Engine", "MultiAZ">>, <<"MultiAZ", f, "", f>>, <<>> }

CompareInit ==
    /\ \E f \in FocusFields :
         /\ db1_details \in {PyNone} \cup RecordsOver(f)
         /\ db2_details \in {PyNone} \cup RecordsOver(f)
         /\ fields_to_compare \in FieldLists(f)
    /\ comparison_results = NotCalled

\* main is not running
Idle ==
    /\ pc = "idle"
    /\ argv = [db1 |-> "", db2 |-> "", fields |-> <<>>]
    /\ rds = <<>>
    /\ s3_put = "ok"
    /\ s3_object_key = ""
    /\ stdout = <<>>
    /\ exit_code = -1
    /\ uncaught = ""

Init == CompareInit /\ Idle

\* one call compare_rds_fields(db1_details, db2_details, fields_to_compare)
Compare ==
    /\ pc = "idle"
    /\ comparison_results = NotCalled
    /\ comparison_results' =
         compare_rds_fields(db1_details, db2_details, fields_to_compare)
    /\ UNCHANGED <<db1_details, db2_details, fields_to_compare>>
    /\ UNCHANGED mainVars

Next == Compare

Spec == Init /\ [][Next]_vars

----------------------------------------------------------------------------
(* get_rds_instance_details, store_comparison_results_to_s3, main *)

\* os.environ['S3_BUCKET_NAME']; the module exits at import when it is unset
S3_BUCKET_NAME == "results-bucket"

\* what describe_db_instances does for one identifier: it returns a response
\* with the instance ("found") or with no DBInstances ("empty"), or raises
\* DBInstanceNotFoundFault ("notfound") or another exception ("error")
Answer(res, details) == [res |-> res, details |-> details]

get_rds_instance_details(db_identifier) ==
    LET a == rds[db_identifier]
    IN IF a.res = "found" THEN a.details ELSE PyNone

\* a command-line value is a sequence of pieces: "," and " " stand for
\* themselves, any other piece is text holding neither
RECURSIVE split(_, _)
split(raw, cur) ==
    IF raw = <<>> THEN <<cur>>
    ELSE IF Head(raw) = "," THEN <<cur>> \o split(Tail(raw), <<>>)
    ELSE split(Tail(raw), Append(cur, Head(raw)))

RECURSIVE lstrip(_)
lstrip(w) == IF w # <<>> /\ Head(w) = " " THEN lstrip(Tail(w)) ELSE w
RECURSIVE rstrip(_)
rstrip(w) == IF w # <<>> /\ w[Len(w)] = " " THEN rstrip(SubSeq(w, 1, Len(w) - 1)) ELSE w
strip(w) == JoinStr(rstrip(lstrip(w)), "")

\* [field.strip() for field in args.fields_to_compare.split(',')]
ParseFields(raw) == LET parts == split(raw, <<>>) IN [i \in 1..Len(parts) |-> strip(parts[i])]

\* the object key of line 195
S3Key(db1, db2, timestamp) ==
    "rds-comparison-results/" \o db1 \o "-vs-" \o db2 \o "/" \o timestamp \o ".json"

\* store_comparison_results_to_s3: the key, or "" for None; every exception
\* of the upload is caught
store_comparison_results_to_s3(db1, db2, timestamp, put) ==
    IF S3_BUCKET_NAME = "" THEN ""
    ELSE IF put = "ok" THEN S3Key(db1, db2, timestamp) ELSE ""

\* the s3_location of lines 263, 272 and 280
S3Location(key) == IF key # "" THEN "s3://" \o S3_BUCKET_NAME \o "/" \o key ELSE "S3 storage failed."

\* the document main prints for a comparison output, lines 258-282
Document(out, key) ==
    IF out.status = "SUCCESS"
    THEN [status |-> "SUCCESS", message |-> "No differences found.",
          with_differences |-> FALSE, differences |-> <<>>, s3_location |-> S3Location(key)]
    ELSE IF out.status = "DIFFERENCES_FOUND"
    THEN [status |-> "DIFFERENCES_FOUND", message |-> "Differences found.",
          with_differences |-> TRUE, differences |-> out.differences,
          s3_location |-> S3Location(key)]
    ELSE [status |-> "ERROR", message |-> out.message,
          with_differences |-> FALSE, differences |-> <<>>, s3_location |-> S3Location(key)]

\* ExitCode that lets a failed upload fail the run
ExitCode_store(out, key) == IF out.status = "SUCCESS" /\ key # "" THEN 0 ELSE 1

\* the status main exits with, lines 265, 274 and 282
ExitCode(out, key) == IF out.status = "SUCCESS" THEN 0 ELSE 1

\* sys.exit(code), or an exception leaving main (the interpreter exits with 1)
Exit(code, exc) ==
    /\ pc' = "done"
    /\ exit_code' = code
    /\ uncaught' = exc

\* lines 221-236: the arguments are parsed and validated
MainParse ==
    /\ pc = "start"
    /\ fields_to_compare' = ParseFields(argv.fields)
    /\ IF argv.db1 = "" \/ argv.db2 = "" \/ fields_to_compare' = <<>>
       THEN Exit(1, "")
       ELSE pc' = "fetch" /\ UNCHANGED <<exit_code, uncaught>>
    /\ UNCHANGED <<db1_details, db2_details, comparison_results,
                   argv, rds, s3_put, s3_object_key, stdout>>

\* lines 239-244: both instances are looked up, then both are required
MainFetch ==
    /\ pc = "fetch"
    /\ db1_details' = get_rds_instance_details(argv.db1)
    /\ db2_details' = get_rds_instance_details(argv.db2)
    /\ IF ~Truthy(db1_details') \/ ~Truthy(db2_details')
       THEN Exit(1, "")
       ELSE pc' = "compare" /\ UNCHANGED <<exit_code, uncaught>>
    /\ UNCHANGED <<fields_to_compare, comparison_results,
                   argv, rds, s3_put, s3_object_key, stdout>>

\* lines 247-248: an exception of the comparison is caught nowhere
MainCompare ==
    /\ pc = "compare"
    /\ comparison_results' = compare_rds_fields(db1_details, db2_details, fields_to_compare)
    /\ IF comparison_results'.raised # ""
       THEN Exit(1, comparison_results'.raised)
       ELSE pc' = "store" /\ UNCHANGED <<exit_code, uncaught>>
    /\ UNCHANGED <<db1_details, db2_details, fields_to_compare,
                   argv, rds, s3_put, s3_object_key, stdout>>

\* the renderings of datetime.now() the run may see
Timestamps == {"2024/01/01/120000000000", "2024/01/02/120000000000"}

\* lines 251-255
MainStore ==
    /\ pc = "store"
    /\ \E timestamp \in Timestamps :
         s3_object_key' = store_comparison_results_to_s3(argv.db1, argv.db2, timestamp, s3_put)
    /\ pc' = "report"
    /\ UNCHANGED <<compareVars, argv, rds, s3_put, stdout, exit_code, uncaught>>

\* lines 258-282
MainReport ==
    /\ pc = "report"
    /\ stdout' = Append(stdout, Document(comparison_results, s3_object_key))
    /\ Exit(ExitCode(comparison_results, s3_object_key), "")
    /\ UNCHANGED <<compareVars, argv, rds, s3_put, s3_object_key>>

\* the instances the account may hold: Tags as plain strings, in two orders,
\* and TagList as boto3 returns it, a list of Key/Value records
Instances ==
    { PyDict(<<KV("MultiAZ", PyBool(TRUE)), KV("Tags", PyList(<<PyStr("a"), PyStr("b")>>))>>),
      PyDict(<<KV("MultiAZ", PyBool(TRUE)), KV("Tags", PyList(<<PyStr("b"), PyStr("a")>>))>>),
      PyDict(<<KV("MultiAZ", PyBool(FALSE)), KV("Tags", PyList(<<PyStr("a")>>))>>),
      PyDict(<<KV("MultiAZ", PyBool(TRUE)),
               KV("TagList", PyList(<<PyDict(<<KV("Key", PyStr("a")), KV("Value", PyStr("1"))>>),
                                      PyDict(<<KV("Key", PyStr("b")), KV("Value", PyStr("1"))>>)>>))>>) }

Identifiers == {"db-a", "db-b"}

Answers ==
    {Answer("found", r) : r \in Instances}
    \cup {Answer(x, PyNone) : x \in {"empty", "notfound", "error"}}

\* values of --fields-to-compare
FieldArgs ==
    { <<"MultiAZ">>,
      <<"MultiAZ", ",", " ", "Tags">>,
      <<" ", "TagList", " ", ",", "MultiAZ", ",">>,
      <<>> }

MainInit ==
    /\ pc = "start"
    /\ argv \in [db1 : Identifiers \cup {""}, db2 : Identifiers \cup {""}, fields : FieldArgs]
    /\ rds \in [Identifiers -> Answers]
    /\ s3_put \in {"ok", "raise"}
    /\ db1_details = PyNone
    /\ db2_details = PyNone
    /\ fields_to_compare = <<>>
    /\ comparison_results = NotCalled
    /\ s3_object_key = ""
    /\ stdout = <<>>
    /\ exit_code = -1
    /\ uncaught = ""

MainNext == MainParse \/ MainFetch \/ MainCompare \/ MainStore \/ MainReport

SpecMain == MainInit /\ [][MainNext]_vars

----------------------------------------------------------------------------
(* Properties of compare_rds_fields, checked under Spec *)

Called == pc = "idle" /\ comparison_results # NotCalled
Returned == Called /\ comparison_results.raised = ""
Present(d) == d # PyNone

Requested == {fields_to_compare[i] : i \in 1..Len(fields_to_compare)}
HasEntry(f) == \E i \in 1..Len(comparison_results.differences) :
                    comparison_results.differences[i].key = f
Entry(f) == comparison_results.differences[
                CHOOSE i \in 1..Len(comparison_results.differences) :
                    comparison_results.differences[i].key = f]
AnyDiff == \E i \in 1..Len(comparison_results.differences) :
                comparison_results.differences[i].diff

\* a record that is missing (None) or unusable (it holds no field)
MissingOrUnusable(d) == d = PyNone \/ (d.kind = "dict" /\ Len(d.pairs) = 0)
InputError == MissingOrUnusable(db1_details) \/ MissingOrUnusable(db2_details)

C2_IdenticalRecordsOk ==
    (Called /\ ~InputError /\ db1_details = db2_details) =>
        /\ Returned
        /\ comparison_results.status = "SUCCESS"
        /\ ~AnyDiff

\* C3: for every entry of a report, diff is true iff the reported db1 value
\* is not equal to the reported db2 value.
C3_DiffMatchesReportedValues ==
    Returned =>
        \A i \in 1..Len(comparison_results.differences) :
            LET e == comparison_results.differences[i]
            IN e.diff <=> ~PyEq(e.db1, e.db2)

\* the number of elements of xs equal to x
Count(xs, x) == Cardinality({i \in 1..Len(xs) : PyEq(xs[i], x)})
IsPermutation(xs, ys) ==
    /\ Len(xs) = Len(ys)
    /\ \A i \in 1..Len(xs) : Count(xs, xs[i]) = Count(ys, xs[i])

\* C4: for a field other than VpcSecurityGroups that holds a list in both
\* records, the call reports diff = false when one list is a permutation of
\* the other and diff = true when it is not.
C4_ListOrderInsensitive ==
    (Called /\ ~InputError) =>
        \A f \in Requested \ {"VpcSecurityGroups"} :
            LET value1 == get(db1_details, f)
                value2 == get(db2_details, f)
            IN (IsList(value1) /\ IsList(value2)) =>
                   /\ Returned
                   /\ Entry(f).diff <=> ~IsPermutation(value1.items, value2.items)

\* the values held under VpcSecurityGroups, when both are lists of records
Sg1 == get(db1_details, "VpcSecurityGroups")
Sg2 == get(db2_details, "VpcSecurityGroups")
ListOfRecords(v) == IsList(v) /\ \A i \in 1..Len(v.items) : IsDict(v.items[i])
SgCase ==
    /\ Called /\ ~InputError
    /\ "VpcSecurityGroups" \in Requested
    /\ ListOfRecords(Sg1) /\ ListOfRecords(Sg2)

\* the positions of xs that carry an identifier, the identifiers carried and
\* how often xs carries the identifier id
Carriers(xs) ==
    {i \in 1..Len(xs) : "VpcSecurityGroupId" \in Keys(xs[i])
                        /\ get(xs[i], "VpcSecurityGroupId") # PyStr("")}
IdSet(xs) == {get(xs[i], "VpcSecurityGroupId") : i \in Carriers(xs)}
IdCount(xs, id) == Cardinality({i \in Carriers(xs) : get(xs[i], "VpcSecurityGroupId") = id})
SameIdSet(xs, ys) == IdSet(xs) = IdSet(ys)
SameIdCounts(xs, ys) ==
    \A id \in IdSet(xs) \cup IdSet(ys) : IdCount(xs, id) = IdCount(ys, id)

\* v is the list of the identifiers of xs in ascending order
AscendingIdsOf(v, xs) ==
    /\ IsList(v)
    /\ \A i \in 1..Len(v.items) : v.items[i].kind = "str"
    /\ \A i, j \in 1..Len(v.items) : i < j => ~StrLt(v.items[j].s, v.items[i].s)
    /\ Len(v.items) = Cardinality(Carriers(xs))
    /\ \A id \in IdSet(xs) : Cardinality({i \in 1..Len(v.items) : v.items[i] = id}) = IdCount(xs, id)

\* C5 as stated: for VpcSecurityGroups, two lists of records with the same
\* set of identifiers are reported with diff = false, and the reported values
\* are the ascending identifier lists.
C5_SameSetNoDiff ==
    SgCase =>
        /\ Returned
        /\ SameIdSet(Sg1.items, Sg2.items) => ~Entry("VpcSecurityGroups").diff
        /\ AscendingIdsOf(Entry("VpcSecurityGroups").db1, Sg1.items)
        /\ AscendingIdsOf(Entry("VpcSecurityGroups").db2, Sg2.items)

\* C5 as amended: the same, for two lists that carry every identifier the
\* same number of times; lists that do not are reported with diff = true.
C5_SameCountsNoDiff ==
    SgCase =>
        /\ Returned
        /\ Entry("VpcSecurityGroups").diff <=> ~SameIdCounts(Sg1.items, Sg2.items)
        /\ AscendingIdsOf(Entry("VpcSecurityGroups").db1, Sg1.items)
        /\ AscendingIdsOf(Entry("VpcSecurityGroups").db2, Sg2.items)

\* two lists with both identifiers in opposite orders and with different
\* other attributes, reported equal
C5_Witness ==
    /\ SgCase /\ Returned
    /\ Len(Sg1.items) = 2 /\ Len(Sg2.items) = 2
    /\ get(Sg1.items[1], "VpcSecurityGroupId") = PyStr("sg-2")
    /\ get(Sg2.items[2], "VpcSecurityGroupId") = PyStr("sg-2")
    /\ get(Sg1.items[2], "VpcSecurityGroupId") = PyStr("sg-1")
    /\ get(Sg2.items[1], "VpcSecurityGroupId") = PyStr("sg-1")
    /\ Sg1.items[2] # Sg2.items[1]
    /\ ~Entry("VpcSecurityGroups").diff

AbsentFromBoth(f) == f \notin Keys(db1_details) /\ f \notin Keys(db2_details)
AbsentFromOne(f) == (f \in Keys(db1_details)) # (f \in Keys(db2_details))
\* the value of the record that holds f, when exactly one does
TheOther(f) == IF f \in Keys(db1_details) THEN get(db1_details, f) ELSE get(db2_details, f)

KindOf(v) == IF v.kind = "int" THEN "number" ELSE v.kind
IsScalar(v) == v.kind \in {"bool", "int", "str"}

\* C7: two values of different kinds are reported with diff = true; two
\* values of the same scalar kind are reported with diff = false exactly when
\* they are the same value.
C7_MismatchedKindsDiffer ==
    (Returned /\ ~InputError) =>
        \A f \in Requested :
            LET value1 == get(db1_details, f)
                value2 == get(db2_details, f)
            IN /\ KindOf(value1) # KindOf(value2) => Entry(f).diff
               /\ (KindOf(value1) = KindOf(value2) /\ IsScalar(value1)) =>
                      (Entry(f).diff <=> value1 # value2)

\* C10: a call with two present records returns a report; no exception
\* escapes.
C10_NoExceptionEscapes ==
    (Called /\ Present(db1_details) /\ Present(db2_details)) => Returned

----------------------------------------------------------------------------
(* Properties of main, checked under SpecMain *)

Done == pc = "done"
\* the run passed the validation of lines 230-236
Validated == argv.db1 # "" /\ argv.db2 # ""
\* the run reached store_comparison_results_to_s3
Stored == Done /\ comparison_results # NotCalled /\ comparison_results.raised = ""

\* C8: a run that got past its arguments has printed exactly one report when
\* it exits, and exits with 0 iff the report's status is SUCCESS.
C8_OneReportAndMatchingExit ==
    (Done /\ Validated) =>
        /\ Len(stdout) = 1
        /\ exit_code = 0 <=> stdout[1].status = "SUCCESS"
        /\ exit_code \in {0, 1}

\* C9: once the comparison has returned, what main prints and its exit
\* status are decided by the comparison alone: the printed status is the
\* comparison's, the exit status is 0 iff it is SUCCESS, the differences are
\* the comparison's, no exception escapes, and the upload decides the
\* s3_location only.
C9_StoreFailureDoesNotMask ==
    Stored =>
        /\ uncaught = ""
        /\ Len(stdout) = 1
        /\ stdout[1].status = comparison_results.status
        /\ exit_code = (IF comparison_results.status = "SUCCESS" THEN 0 ELSE 1)
        /\ stdout[1].with_differences = (comparison_results.status = "DIFFERENCES_FOUND")
        /\ stdout[1].with_differences => stdout[1].differences = comparison_results.differences
        /\ stdout[1].s3_location = "S3 storage failed." <=> s3_put = "raise"
        /\ s3_object_key = "" <=> s3_put = "raise"

\* a run whose upload raised and that still reports SUCCESS and exits with 0
C9_Witness ==
    /\ Stored
    /\ s3_put = "raise"
    /\ stdout[1].status = "SUCCESS"
    /\ stdout[1].s3_location = "S3 storage failed."
    /\ "MultiAZ" \in {fields_to_compare[i] : i \in 1..Len(fields_to_compare)}
    /\ exit_code = 0

====
